---------------------------- MODULE Spec2Model ----------------------------
(***************************************************************************)
(* Model of cleanup.py: the .desktop scanner, the interactive remediation  *)
(* loop, the helper client (remove_file / privilaged_subprocess) and the   *)
(* privileged helper process (start_privilaged) with the two pipes that    *)
(* connect them.                                                           *)
(*                                                                         *)
(* Text is a sequence of atoms.  An atom is a piece of text that the code  *)
(* never looks inside: " " and "\n" are atoms of their own, ".desktop" is  *)
(* an atom, and no atom is a concatenation or a suffix of others, so that  *)
(* equality, split(' ', 1), strip(), endswith() and readline() on the text *)
(* are exactly the same operations on the atom sequence.  The fixed parts  *)
(* of the helper's responses are atoms too: nothing splits a response.     *)
(***************************************************************************)
EXTENDS Integers, Sequences, FiniteSets, TLC

VARIABLES
    \* ---- main process (find_and_fix) ----
    pc,            \* "prompt" | "wait" | "done" | "crashed" | "idle"
    err,           \* the uncaught exception that ended the main process
    entries,       \* the list returned by find_broken_desktop_files()
    idx,           \* position of the for loop in entries (1-based)
    delete_count,
    edit_count,
    stdio,         \* what sys.stdout/sys.stdin are bound to
    \* ---- file system ----
    fs,            \* the paths that exist
    \* ---- helper process and its pipes ----
    helper,        \* "none" | "starting" | "running" | "dead"
    spawnCount,    \* number of Popen calls made by privilaged_subprocess
    toHelper,      \* bytes in the helper's stdin pipe
    stdinOpen,     \* the write end of the helper's stdin is open
    fromHelper,    \* bytes in the helper's stdout pipe
    outOpen,       \* the read end of the helper's stdout is open
    \* ---- observation of the run (history) ----
    hlog,          \* what the last iteration of the helper loop did
    rd,            \* what the last readline() of the client returned
    counted,       \* locations counted in delete_count
    permDenied,    \* some direct unlink raised PermissionError
    sent,          \* number of commands written to the helper
    \* ---- scanner (find_broken_desktop_files) ----
    scanpc,        \* "idle" | "scanning" | "returned" | "crashed"
    content,       \* what each scanned file holds
    toScan,        \* files the glob has not yielded yet
    config,        \* the ConfigParser object shared by all files
    broken,        \* the result list
    scanned,       \* the files read so far, in order (history)
    lastScan       \* what lines 59-82 did with the last file (history)

vars == <<pc, err, entries, idx, delete_count, edit_count, stdio, fs,
          helper, spawnCount, toHelper, stdinOpen, fromHelper, outOpen,
          hlog, rd, counted, permDenied, sent,
          scanpc, content, toScan, config, broken, scanned, lastScan>>

mainVars   == <<pc, err, entries, idx, delete_count, edit_count, stdio,
                rd, counted, permDenied, sent, spawnCount>>
scanVars   == <<scanpc, content, toScan, config, broken, scanned, lastScan>>

----------------------------------------------------------------------------
(* Bounds *)

MaxEntries == 3     \* longest list of broken entries in a run
MaxLineLen == 4     \* longest line (in atoms) fed to a stand-alone helper
PipeCap    == 16    \* atoms a pipe holds before a writer blocks
MaxFiles   == 2     \* files in the scanned directories

----------------------------------------------------------------------------
(* Text *)

WS == {" ", "\n"}

NoPath == <<>>

RECURSIVE LStrip(_)
LStrip(s) == IF s # <<>> /\ Head(s) \in WS THEN LStrip(Tail(s)) ELSE s

RECURSIVE RStrip(_)
RStrip(s) == IF s # <<>> /\ s[Len(s)] \in WS
             THEN RStrip(SubSeq(s, 1, Len(s) - 1)) ELSE s

\* str.strip()
Strip(s) == RStrip(LStrip(s))

\* position of the first atom a in s, 0 when there is none
RECURSIVE IndexFrom(_, _, _)
IndexFrom(s, a, i) == IF i > Len(s) THEN 0
                      ELSE IF s[i] = a THEN i ELSE IndexFrom(s, a, i + 1)

IndexOf(s, a) == IndexFrom(s, a, 1)

Contains(s, a) == IndexOf(s, a) # 0

\* str.endswith(".desktop")
EndsWithDesktop(s) == s # <<>> /\ s[Len(s)] = ".desktop"

\* str.endswith("SUCCESS")
EndsWithSuccess(s) == s # <<>> /\ s[Len(s)] = "SUCCESS"

\* number of "\n" in s
RECURSIVE CountNL(_)
CountNL(s) == IF s = <<>> THEN 0
              ELSE (IF Head(s) = "\n" THEN 1 ELSE 0) + CountNL(Tail(s))

\* file.readline(): the text up to and including the first newline; at
\* end of input whatever is left (the empty text when nothing is).
ReadLine(stream) ==
    LET i == IndexOf(stream, "\n")
    IN IF i = 0 THEN [line |-> stream, rest |-> <<>>]
       ELSE [line |-> SubSeq(stream, 1, i),
             rest |-> SubSeq(stream, i + 1, Len(stream))]

\* readline() returns without blocking
CanRead(stream, eof) == Contains(stream, "\n") \/ eof

\* a quote character behind a backslash
Escaped(q) == IF q = "'" THEN "\\'" ELSE "\\\""

\* repr() of a str, as the f-string "{x=}" prints it
RECURSIVE ReprBody(_, _)
ReprBody(s, q) ==
    IF s = <<>> THEN <<>>
    ELSE (IF Head(s) = "\\" THEN <<"\\\\">>
          ELSE IF Head(s) = q THEN <<Escaped(q)>>
          ELSE <<Head(s)>>) \o ReprBody(Tail(s), q)

Repr(s) ==
    LET q == IF Contains(s, "'") /\ ~Contains(s, "\"") THEN "\"" ELSE "'"
    IN <<q>> \o ReprBody(s, q) \o <<q>>

----------------------------------------------------------------------------
(* The privileged helper: start_privilaged *)

\* the usage text without the backslash-n the code puts inside the quotes
UsageMsgPlain == <<"Must be in the form '[CMD] ...", "'">>

\* line 89: the text written for a line without a space
UsageMsg == <<"Must be in the form '[CMD] ...", "\\n", "'">>

\* line 95
ErrNotDesktop == <<"ERR Must be a .desktop file.">>

\* line 99
UnlinkSuccess(entry) == <<"UNLINK", " ">> \o entry \o <<" ", "SUCCESS">>

\* line 102
ErrUnknown(command, entry) ==
    <<"ERR Unknown: command=">> \o Repr(command) \o <<" entry=">> \o Repr(entry)

\* line 92: entry.split(' ', 1) of a text that holds a space
Before(s) == SubSeq(s, 1, IndexOf(s, " ") - 1)

After(s) == SubSeq(s, IndexOf(s, " ") + 1, Len(s))

\* Dispatch with the test of line 93 always true: any verb unlinks
DispatchAnyVerb(raw) ==
    LET entry0 == Strip(raw)
    IN IF ~Contains(entry0, " ")
       THEN [kind |-> "usage", out |-> UsageMsg, target |-> NoPath]
       ELSE LET entry == After(entry0)
            IN IF ~EndsWithDesktop(entry)
               THEN [kind |-> "notdesktop", out |-> ErrNotDesktop,
                     target |-> NoPath]
               ELSE [kind |-> "unlink", out |-> UnlinkSuccess(entry),
                     target |-> entry]

\* Dispatch without the test of line 94: UNLINK accepts any path
DispatchNoGuard(raw) ==
    LET entry0 == Strip(raw)
    IN IF ~Contains(entry0, " ")
       THEN [kind |-> "usage", out |-> UsageMsg, target |-> NoPath]
       ELSE LET command == Before(entry0)
                entry   == After(entry0)
            IN IF command = <<"UNLINK">>
               THEN [kind |-> "unlink", out |-> UnlinkSuccess(entry),
                     target |-> entry]
               ELSE [kind |-> "unknown", out |-> ErrUnknown(command, entry),
                     target |-> NoPath]

\* lines 87-103 without the effects: what one line makes the helper do.
\* target is the path handed to Path(entry).unlink(), out the response
\* written when the iteration gets that far.
Dispatch(raw) ==
    LET entry0 == Strip(raw)
    IN IF ~Contains(entry0, " ")
       THEN [kind |-> "usage", out |-> UsageMsg, target |-> NoPath]
       ELSE LET command == Before(entry0)
                entry   == After(entry0)
            IN IF command = <<"UNLINK">>
               THEN IF ~EndsWithDesktop(entry)
                    THEN [kind |-> "notdesktop", out |-> ErrNotDesktop,
                          target |-> NoPath]
                    ELSE [kind |-> "unlink", out |-> UnlinkSuccess(entry),
                          target |-> entry]
               ELSE [kind |-> "unknown", out |-> ErrUnknown(command, entry),
                     target |-> NoPath]

NoLog == [kind |-> "none", line |-> <<>>, eof |-> FALSE, written |-> <<>>,
          deleted |-> {}, alive |-> TRUE, outOpen |-> TRUE]

\* One iteration of the while loop.  readline() blocks until a whole line
\* is in the pipe or the write end is closed; the write blocks while the
\* pipe is full.  unlinkOk is whether the file system lets the helper
\* delete an existing file; a missing file always raises.  An exception of
\* unlink() or of the write (BrokenPipeError) is not caught and ends the
\* process.
HelperIter(unlinkOk) ==
    /\ helper = "running"
    /\ CanRead(toHelper, ~stdinOpen)
    /\ LET r       == ReadLine(toHelper)
           d       == Dispatch(r.line)
           raises  == d.kind = "unlink" /\ (d.target \notin fs \/ ~unlinkOk)
           wrote   == ~raises /\ outOpen
           text    == d.out \o <<"\n">>
       IN /\ unlinkOk \/ raises
          /\ raises \/ ~outOpen \/ Len(fromHelper) + Len(text) <= PipeCap
          /\ toHelper' = r.rest
          /\ fs' = IF d.kind = "unlink" /\ ~raises THEN fs \ {d.target} ELSE fs
          /\ fromHelper' = IF wrote THEN fromHelper \o text ELSE fromHelper
          /\ helper' = IF wrote THEN "running" ELSE "dead"
          /\ hlog' = [kind    |-> d.kind,
                      line    |-> Strip(r.line),
                      eof     |-> r.line = <<>>,
                      written |-> IF wrote THEN text ELSE <<>>,
                      deleted |-> fs \ fs',
                      alive   |-> wrote,
                      outOpen |-> outOpen]

HelperStep ==
    /\ \E unlinkOk \in BOOLEAN : HelperIter(unlinkOk)
    /\ UNCHANGED <<stdinOpen, outOpen>>
    /\ UNCHANGED mainVars
    /\ UNCHANGED scanVars

----------------------------------------------------------------------------
(* The main process: find_and_fix, edit_file, remove_file *)

\* Files of the run.  A scanned file is <directory>/<name> with a name that
\* matches *.desktop; a name may hold spaces and line breaks.
FileA   == <<"/d/a", ".desktop">>
FileNL  == <<"/d/a", ".desktop", "\n", "b", ".desktop">>
FileSP  == <<"/d/c", " ", "c", ".desktop">>
FileINJ == <<"/d/x", "\n", "UNLINK", " ", "b", ".desktop">>
\* b.desktop in the working directory of the helper
FileREL == <<"b", ".desktop">>

RunFiles == {FileA, FileNL, FileSP, FileINJ}

Range(s) == {s[i] : i \in 1..Len(s)}

\* the lists of at most n different members of S
RECURSIVE DistinctSeqs(_, _)
DistinctSeqs(S, n) ==
    IF n = 0 THEN {<<>>}
    ELSE LET shorter == DistinctSeqs(S, n - 1)
         IN shorter \cup
            UNION {{Append(s, x) : x \in S \ Range(s)} :
                   s \in {t \in shorter : Len(t) = n - 1}}

NoRead == [for |-> NoPath, got |-> <<>>, eof |-> FALSE]

\* a loop that prompts for the same entry again
AdvanceStay ==
    /\ idx' = idx
    /\ pc' = "prompt"

\* line 169: the for loop moves on; after the last entry lines 192-198
\* print the totals
Advance ==
    /\ idx' = idx + 1
    /\ pc' = IF idx + 1 > Len(entries) THEN "done" ELSE "prompt"

\* lines 184-185: the answer q / quit
Quit ==
    /\ pc = "prompt"
    /\ pc' = "done"
    /\ UNCHANGED <<err, entries, idx, delete_count, edit_count, stdio, fs,
                   helper, spawnCount, toHelper, stdinOpen, fromHelper,
                   outOpen, hlog, rd, counted, permDenied, sent>>
    /\ UNCHANGED scanVars

\* line 183 with any answer that is none of q, e, d
Ignore ==
    /\ pc = "prompt"
    /\ Advance
    /\ UNCHANGED <<err, entries, delete_count, edit_count, stdio, fs,
                   helper, spawnCount, toHelper, stdinOpen, fromHelper,
                   outOpen, hlog, rd, counted, permDenied, sent>>
    /\ UNCHANGED scanVars

\* lines 186-188 and edit_file (120-138).  The editor exits with status
\* zero or not, or Popen raises because the program cannot be started; in
\* that case line 135 is not reached.
Edit ==
    /\ pc = "prompt"
    /\ \E outcome \in {"zero", "nonzero", "oserror"} :
          IF outcome = "oserror"
          THEN /\ pc' = "crashed"
               /\ err' = "OSError"
               /\ stdio' = "redirected"
               /\ UNCHANGED <<idx, edit_count>>
          ELSE /\ Advance
               /\ stdio' = "orig"
               /\ edit_count' = IF outcome = "zero" THEN edit_count + 1
                                ELSE edit_count
               /\ UNCHANGED err
    /\ UNCHANGED <<entries, delete_count, fs, helper, spawnCount, toHelper,
                   stdinOpen, fromHelper, outOpen, hlog, rd, counted,
                   permDenied, sent>>
    /\ UNCHANGED scanVars

\* line 143: what Path(filename).unlink() can do in the main process
UnlinkOutcomes(p) == IF p \in fs THEN {"ok", "PermissionError"}
                     ELSE {"FileNotFoundError"}

\* remove_file going to the helper whatever the direct unlink did
UsesHelperAlways(outcome) == TRUE

\* line 145: the exception that sends the delete to the helper
UsesHelper(outcome) == outcome = "PermissionError"

\* privilaged_subprocess without @cache
NeedSpawnUncached == TRUE

\* lines 105-106: @cache; Popen runs when no earlier call has returned
NeedSpawn == helper = "none"

\* line 149
Command(filename) == <<"UNLINK", " ">> \o filename

\* lines 189-191 and remove_file up to line 152: the direct unlink, and on
\* PermissionError the command written to the helper.  Writing to the pipe
\* of a helper that has exited raises BrokenPipeError, which nothing
\* catches.
Delete ==
    /\ pc = "prompt"
    /\ LET p == entries[idx] IN
       \E outcome \in UnlinkOutcomes(p) :
          /\ permDenied' = (permDenied \/ outcome = "PermissionError")
          /\ IF UsesHelper(outcome)
             THEN LET spawn == NeedSpawn
                      h     == IF spawn THEN "starting" ELSE helper
                      pipe  == IF spawn THEN <<>> ELSE toHelper
                  IN /\ spawnCount' = IF spawn THEN spawnCount + 1
                                      ELSE spawnCount
                     /\ stdinOpen' = IF spawn THEN TRUE ELSE stdinOpen
                     /\ outOpen' = IF spawn THEN TRUE ELSE outOpen
                     /\ fromHelper' = IF spawn THEN <<>> ELSE fromHelper
                     /\ helper' = h
                     /\ IF h = "dead"
                        THEN /\ pc' = "crashed"
                             /\ err' = "BrokenPipeError"
                             /\ toHelper' = pipe
                             /\ UNCHANGED <<sent, idx>>
                        ELSE /\ pc' = "wait"
                             /\ toHelper' = pipe \o Command(p) \o <<"\n">>
                             /\ sent' = sent + 1
                             /\ UNCHANGED <<err, idx>>
                     /\ UNCHANGED <<fs, delete_count, counted>>
             ELSE /\ IF outcome = "ok"
                     THEN /\ fs' = fs \ {p}
                          /\ delete_count' = delete_count + 1
                          /\ counted' = counted \cup {p}
                          /\ Advance
                          /\ UNCHANGED err
                     ELSE /\ pc' = "crashed"
                          /\ err' = outcome
                          /\ UNCHANGED <<fs, delete_count, counted, idx>>
                  /\ UNCHANGED <<helper, spawnCount, toHelper, stdinOpen,
                                 fromHelper, outOpen, sent>>
    /\ UNCHANGED <<entries, edit_count, stdio, hlog, rd>>
    /\ UNCHANGED scanVars

\* remove_file lines 153-159 and line 191: one line is read from the
\* helper's stdout (the empty text at end of file, when the helper has
\* exited) and the delete counts when it ends with SUCCESS.
ClientRead ==
    /\ pc = "wait"
    /\ CanRead(fromHelper, helper = "dead")
    /\ LET r   == ReadLine(fromHelper)
           ret == Strip(r.line)
       IN /\ fromHelper' = r.rest
          /\ rd' = [for |-> entries[idx], got |-> ret, eof |-> r.line = <<>>]
          /\ delete_count' = IF EndsWithSuccess(ret) THEN delete_count + 1
                             ELSE delete_count
          /\ counted' = IF EndsWithSuccess(ret)
                        THEN counted \cup {entries[idx]} ELSE counted
    /\ Advance
    /\ UNCHANGED <<err, entries, edit_count, stdio, fs, helper, spawnCount,
                   toHelper, stdinOpen, outOpen, hlog, permDenied, sent>>
    /\ UNCHANGED scanVars

\* lines 107-118: pkexec authorises and executes the helper
PkexecGrant ==
    /\ helper = "starting"
    /\ helper' = "running"
    /\ UNCHANGED <<fs, toHelper, stdinOpen, fromHelper, outOpen, hlog>>
    /\ UNCHANGED mainVars
    /\ UNCHANGED scanVars

\* lines 107-118: pkexec refuses and exits without running the helper
PkexecDeny ==
    /\ helper = "starting"
    /\ helper' = "dead"
    /\ UNCHANGED <<fs, toHelper, stdinOpen, fromHelper, outOpen, hlog>>
    /\ UNCHANGED mainVars
    /\ UNCHANGED scanVars

\* lines 219-222: the main process has ended and its descriptors are
\* closed, one after the other
ParentCloseStdin ==
    /\ pc \in {"done", "crashed"}
    /\ helper \in {"starting", "running"}
    /\ stdinOpen
    /\ stdinOpen' = FALSE
    /\ UNCHANGED <<fs, helper, toHelper, fromHelper, outOpen, hlog>>
    /\ UNCHANGED mainVars
    /\ UNCHANGED scanVars

ParentCloseStdout ==
    /\ pc \in {"done", "crashed"}
    /\ helper \in {"starting", "running"}
    /\ outOpen
    /\ outOpen' = FALSE
    /\ UNCHANGED <<fs, helper, toHelper, stdinOpen, fromHelper, hlog>>
    /\ UNCHANGED mainVars
    /\ UNCHANGED scanVars

NoScan == [result |-> "none",
           entry  |-> [location |-> NoPath, reason |-> "None",
                       exec |-> <<"none">>, full_exec |-> <<"none">>]]

ScanIdle ==
    /\ scanpc = "idle"
    /\ content = <<>>
    /\ toScan = {}
    /\ config = [section |-> FALSE, exec |-> <<"none">>]  \* no parser yet
    /\ broken = <<>>
    /\ scanned = <<>>
    /\ lastScan = NoScan

\* line 162-167: the scan has returned its list; nothing has been deleted
\* or edited and no helper exists
Init ==
    /\ fs \in SUBSET (RunFiles \cup {FileREL})
    /\ entries \in DistinctSeqs(fs \cap RunFiles, MaxEntries)
    /\ pc = IF entries = <<>> THEN "done" ELSE "prompt"
    /\ err = "none"
    /\ idx = 1
    /\ delete_count = 0
    /\ edit_count = 0
    /\ stdio = "orig"
    /\ helper = "none"
    /\ spawnCount = 0
    /\ toHelper = <<>>
    /\ stdinOpen = FALSE
    /\ fromHelper = <<>>
    /\ outOpen = FALSE
    /\ hlog = NoLog
    /\ rd = NoRead
    /\ counted = {}
    /\ permDenied = FALSE
    /\ sent = 0
    /\ ScanIdle

Next ==
    \/ Quit
    \/ Ignore
    \/ Edit
    \/ Delete
    \/ ClientRead
    \/ PkexecGrant
    \/ PkexecDeny
    \/ HelperStep
    \/ ParentCloseStdin
    \/ ParentCloseStdout

Spec == Init /\ [][Next]_vars

TypeOK ==
    /\ pc \in {"prompt", "wait", "done", "crashed", "idle"}
    /\ idx \in 1..(Len(entries) + 1)
    /\ helper \in {"none", "starting", "running", "dead"}

----------------------------------------------------------------------------
(* The helper run on its own: `cleanup.py --privilaged` with any text on   *)
(* its standard input and a reader on its standard output                  *)

LineAtoms == {"UNLINK", "FOO", " ", "/d/a", ".desktop", "'"}

RECURSIVE SeqsUpTo(_, _)
SeqsUpTo(S, n) ==
    IF n = 0 THEN {<<>>}
    ELSE LET shorter == SeqsUpTo(S, n - 1)
         IN shorter \cup
            {Append(s, x) : s \in {t \in shorter : Len(t) = n - 1}, x \in S}

InputLines == SeqsUpTo(LineAtoms, MaxLineLen)

\* a .desktop file, and a file of another kind
HelperFiles == {<<"/d/a", ".desktop">>, <<"/d/a">>}

MainIdle ==
    /\ pc = "idle"
    /\ err = "none"
    /\ entries = <<>>
    /\ idx = 1
    /\ delete_count = 0
    /\ edit_count = 0
    /\ stdio = "orig"
    /\ spawnCount = 0
    /\ rd = NoRead
    /\ counted = {}
    /\ permDenied = FALSE
    /\ sent = 0

\* lines 219-220: the process started with --privilaged
HelperInit ==
    /\ MainIdle
    /\ ScanIdle
    /\ helper = "running"
    /\ fs \in SUBSET HelperFiles
    /\ toHelper = <<>>
    /\ stdinOpen = TRUE
    /\ fromHelper = <<>>
    /\ outOpen = TRUE
    /\ hlog = NoLog

\* the other end writes one line and waits for the answer
EnvWrite ==
    /\ helper = "running"
    /\ stdinOpen
    /\ toHelper = <<>>
    /\ fromHelper = <<>>
    /\ \E line \in InputLines : toHelper' = line \o <<"\n">>
    /\ UNCHANGED <<fs, helper, stdinOpen, fromHelper, outOpen, hlog>>
    /\ UNCHANGED mainVars
    /\ UNCHANGED scanVars

\* the other end takes one line of the answer; the exchange the log
\* describes is over
EnvRead ==
    /\ outOpen
    /\ fromHelper # <<>>
    /\ fromHelper' = ReadLine(fromHelper).rest
    /\ hlog' = NoLog
    /\ UNCHANGED <<fs, helper, toHelper, stdinOpen, outOpen>>
    /\ UNCHANGED mainVars
    /\ UNCHANGED scanVars

\* the other end closes the helper's standard input
EnvCloseStdin ==
    /\ helper = "running"
    /\ stdinOpen
    /\ stdinOpen' = FALSE
    /\ UNCHANGED <<fs, helper, toHelper, fromHelper, outOpen, hlog>>
    /\ UNCHANGED mainVars
    /\ UNCHANGED scanVars

\* the other end stops reading the helper's standard output
EnvCloseStdout ==
    /\ helper = "running"
    /\ outOpen
    /\ outOpen' = FALSE
    /\ UNCHANGED <<fs, helper, toHelper, stdinOpen, fromHelper, hlog>>
    /\ UNCHANGED mainVars
    /\ UNCHANGED scanVars

HelperNext ==
    \/ EnvWrite
    \/ HelperStep
    \/ EnvRead
    \/ EnvCloseStdin
    \/ EnvCloseStdout

HelperSpec == HelperInit /\ [][HelperNext]_vars

----------------------------------------------------------------------------
(* The scanner: find_broken_desktop_files *)

NoKey == <<"none">>

NameOf == <<"f1", "f2", "f3", "f4", "f5">>

ScanPath(i) == <<"/d/", NameOf[i], ".desktop">>

ScanFiles == {ScanPath(i) : i \in 1..MaxFiles}

\* Values of Exec= as the file gives them
ExecStrings ==
    { <<"sh">>,                             \* found on the search path
      <<"gone">>,                           \* not on the search path
      <<"/bin/sh">>,                        \* an existing absolute path
      <<"/opt/gone">>,                      \* a missing absolute path
      <<"~/bin/tool">>,                     \* exists in the home directory
      <<"env", " ", "A=1", " ", "sh">>,
      <<"env", " ", "A=1">>,
      <<"env", " ", "A=1", " ", "gone">>,
      <<"ENV", " ", "A=1", " ", "/opt/gone">>,
      <<"\"", "my", " ", "app", "\"", " ", "arg">>,
      <<"\"", "sh">>,                       \* quote never closed
      <<>> }                                \* Exec= with nothing behind it

\* What a file holds: whether it can be read at all, whether the parser
\* accepts it, whether it has a [Desktop Entry] section and the value of
\* the section's Exec key.
Contents ==
    {[parse |-> "ok", section |-> TRUE, exec |-> x] : x \in ExecStrings}
    \cup {[parse |-> "ok", section |-> TRUE, exec |-> NoKey],
          [parse |-> "ok", section |-> FALSE, exec |-> NoKey],
          [parse |-> "noheader", section |-> FALSE, exec |-> NoKey],
          [parse |-> "unreadable", section |-> FALSE, exec |-> NoKey]}

EmptyConfig == [section |-> FALSE, exec |-> NoKey]

\* config.read that keeps a key the object already holds
ConfigReadKeepFirst(cfg, c) ==
    IF c.parse = "ok"
    THEN [section |-> cfg.section \/ c.section,
          exec    |-> IF cfg.exec # NoKey THEN cfg.exec
                      ELSE IF c.section THEN c.exec ELSE NoKey]
    ELSE cfg

\* line 61: config.read(path) on the parser object made at line 56.  A
\* file that cannot be opened is skipped silently; a file whose first
\* content line is outside any section raises before anything is stored;
\* otherwise sections and keys are added to what the object already holds.
ConfigRead(cfg, c) ==
    IF c.parse = "ok"
    THEN [section |-> cfg.section \/ c.section,
          exec    |-> IF c.section /\ c.exec # NoKey THEN c.exec
                      ELSE cfg.exec]
    ELSE cfg

\* shlex.split: words separated by blanks, double quotes group; a quote
\* left open raises ValueError
RECURSIVE Shlex(_, _, _, _, _)
Shlex(s, cur, has, inq, out) ==
    IF s = <<>>
    THEN IF inq THEN <<"ValueError">>
         ELSE IF has THEN Append(out, cur) ELSE out
    ELSE LET a == Head(s) IN
         IF inq
         THEN IF a = "\"" THEN Shlex(Tail(s), cur, TRUE, FALSE, out)
              ELSE Shlex(Tail(s), Append(cur, a), TRUE, TRUE, out)
         ELSE IF a = " "
              THEN IF has THEN Shlex(Tail(s), <<>>, FALSE, FALSE, Append(out, cur))
                   ELSE Shlex(Tail(s), <<>>, FALSE, FALSE, out)
              ELSE IF a = "\"" THEN Shlex(Tail(s), cur, TRUE, TRUE, out)
                   ELSE Shlex(Tail(s), Append(cur, a), TRUE, FALSE, out)

ShlexSplit(s) == Shlex(s, <<>>, FALSE, FALSE, <<>>)

\* a comparison that keeps the case of the token
LowerNone(tok) == tok

\* str.lower() of a token
Lower(tok) == IF tok = <<"ENV">> THEN <<"env">> ELSE tok

\* '=' in c
HasEq(tok) == \E i \in 1..Len(tok) : tok[i] \in {"A=1"}

\* line 70: startswith('/') or startswith('~')
StartsWithSlashOrTilde(tok) ==
    tok # <<>> /\ tok[1] \in {"/bin/sh", "/opt/gone", "~/bin/tool"}

\* os.path.exists of the text as it stands (no ~ expansion)
PathExists(tok) == tok \in {<<"/bin/sh">>}

\* shutil.which
Which(tok) == tok \in {<<"sh">>}

RECURSIVE SelectNoEq(_)
SelectNoEq(toks) ==
    IF toks = <<>> THEN <<>>
    ELSE (IF HasEq(Head(toks)) THEN <<>> ELSE <<Head(toks)>>)
         \o SelectNoEq(Tail(toks))

NoExecReason == "No [Desktop Entry].Exec entry found."

\* lines 59-82 for one file, given the parser state after line 61:
\* result "broken" with the entry, "healthy", or the exception that
\* leaves the function
Classify(f, c, cfg) ==
    LET e0 == [location |-> f, reason |-> "None", exec |-> NoKey,
               full_exec |-> NoKey]
    IN IF c.parse = "noheader"
       THEN [result |-> "broken",
             entry  |-> [e0 EXCEPT !.reason = "File contains no section headers."]]
       ELSE IF ~cfg.section \/ cfg.exec = NoKey
       THEN [result |-> "broken", entry |-> [e0 EXCEPT !.reason = NoExecReason]]
       ELSE LET full    == Strip(cfg.exec)
                command == ShlexSplit(full)
                e1      == [e0 EXCEPT !.full_exec = full]
            IN IF command = <<"ValueError">>
               THEN [result |-> "ValueError", entry |-> e1]
               ELSE IF command = <<>>
               THEN [result |-> "IndexError", entry |-> e1]
               ELSE LET rest == SelectNoEq(Tail(command))
                        isenv == Lower(command[1]) = <<"env">>
                    IN IF isenv /\ rest = <<>>
                       THEN [result |-> "IndexError", entry |-> e1]
                       ELSE LET x  == IF isenv THEN rest[1] ELSE command[1]
                                e2 == [e1 EXCEPT !.exec = x]
                            IN IF StartsWithSlashOrTilde(x)
                               THEN IF ~PathExists(x)
                                    THEN [result |-> "broken",
                                          entry  |-> [e2 EXCEPT !.reason =
                                                "Executable does not exist."]]
                                    ELSE [result |-> "healthy", entry |-> e2]
                               ELSE IF ~Which(x)
                                    THEN [result |-> "broken",
                                          entry  |-> [e2 EXCEPT !.reason =
                                                "Executable not found in $PATH."]]
                                    ELSE [result |-> "healthy", entry |-> e2]

\* one pass of the loop of lines 58-82; the glob yields the files in any
\* order.  After the last file line 83 returns the list.
ScanFile ==
    /\ scanpc = "scanning"
    /\ \E f \in toScan :
          LET cfg == ConfigRead(config, content[f])
              r   == Classify(f, content[f], cfg)
          IN /\ config' = cfg
             /\ toScan' = toScan \ {f}
             /\ scanned' = Append(scanned, f)
             /\ lastScan' = r
             /\ broken' = IF r.result = "broken" THEN Append(broken, r.entry)
                          ELSE broken
             /\ scanpc' = IF r.result \in {"ValueError", "IndexError"}
                          THEN "crashed"
                          ELSE IF toScan \ {f} = {} THEN "returned"
                          ELSE "scanning"
    /\ UNCHANGED content
    /\ UNCHANGED <<fs, helper, toHelper, stdinOpen, fromHelper, outOpen, hlog>>
    /\ UNCHANGED mainVars

\* lines 55-57: an empty list, a new parser, the files of the directories
ScanInit ==
    /\ MainIdle
    /\ helper = "none"
    /\ fs = {}
    /\ toHelper = <<>>
    /\ stdinOpen = FALSE
    /\ fromHelper = <<>>
    /\ outOpen = FALSE
    /\ hlog = NoLog
    /\ scanpc = "scanning"
    /\ content \in [ScanFiles -> Contents]
    /\ toScan = ScanFiles
    /\ config = EmptyConfig
    /\ broken = <<>>
    /\ scanned = <<>>
    /\ lastScan = NoScan

ScanNext == ScanFile

ScanSpec == ScanInit /\ [][ScanNext]_vars

----------------------------------------------------------------------------
(* Properties *)

\* C1: an entry is counted as deleted only if the file at that entry's
\* path was actually removed (by the direct unlink or by the helper for
\* that entry's command): every counted location is gone from the file
\* system.
C1_CountedOnlyIfRemoved == \A p \in counted : p \notin fs

\* C2: the line the client reads back in a call is the response to the
\* command it sent in that same call: unless the helper ended without
\* answering, the text read is the helper's answer to "UNLINK <path>" for
\* the path of that call, never the answer to another line.
C2_ReadAnswersOwnCommand ==
    rd.for # NoPath =>
        \/ rd.eof
        \/ rd.got = <<"UNLINK", " ">> \o rd.for \o <<" ", "SUCCESS">>

\* C3: the privileged helper process is created at most once in a run,
\* however many deletes fail with a permission error; later helper-assisted
\* unlinks reuse it.
C3_HelperSpawnedAtMostOnce ==
    /\ spawnCount <= 1
    /\ sent >= 1 => spawnCount = 1

C3_Witness == sent >= 2 /\ spawnCount = 1 /\ helper = "running"

\* C4: the helper is spawned, and a command sent to it, only after a direct
\* unprivileged delete has failed with a permission error; while no delete
\* has failed that way (direct deletes that succeed, edits, ignores, quit)
\* there is no helper and nothing has been sent.
C4_HelperOnlyAfterPermissionError ==
    ~permDenied =>
        /\ helper = "none"
        /\ spawnCount = 0
        /\ sent = 0
        /\ toHelper = <<>>

C4_Witness ==
    /\ pc = "done"
    /\ delete_count >= 1
    /\ edit_count >= 1
    /\ ~permDenied
    /\ helper = "none"

\* C5: for a line without a space and for a line whose verb is not UNLINK
\* the helper (whose output is being read) writes exactly one usage/ERR
\* line, deletes no file and stays in the loop, ready for the next line.
C5_MalformedLineRecovered ==
    (/\ hlog.kind # "none"
     /\ hlog.outOpen
     /\ (~Contains(hlog.line, " ") \/ Before(hlog.line) # <<"UNLINK">>))
    => /\ hlog.alive
       /\ helper = "running"
       /\ hlog.deleted = {}
       /\ CountNL(hlog.written) = 1
       /\ hlog.written[Len(hlog.written)] = "\n"
       /\ hlog.written[1] \in {"Must be in the form '[CMD] ...",
                               "ERR Unknown: command="}

C5_Witness ==
    /\ hlog.line = <<"FOO", " ", "/d/a", ".desktop">>
    /\ <<"/d/a", ".desktop">> \in fs
    /\ helper = "running"
    /\ hlog.written # <<>>

\* C6: an UNLINK whose argument does not end with .desktop is answered
\* with "ERR Must be a .desktop file." and deletes nothing; no helper
\* iteration ever deletes a path that does not end in .desktop.
C6_OnlyDesktopDeleted ==
    /\ (/\ hlog.kind # "none"
        /\ Contains(hlog.line, " ")
        /\ Before(hlog.line) = <<"UNLINK">>
        /\ ~EndsWithDesktop(After(hlog.line)))
       => /\ hlog.deleted = {}
          /\ hlog.alive = hlog.outOpen
          /\ hlog.outOpen =>
                hlog.written = <<"ERR Must be a .desktop file.", "\n">>
    /\ \A p \in hlog.deleted : EndsWithDesktop(p)

C6_Witness ==
    /\ hlog.line = <<"UNLINK", " ", "/d/a">>
    /\ <<"/d/a">> \in fs
    /\ hlog.written = <<"ERR Must be a .desktop file.", "\n">>

\* C7: once the helper has read end-of-input on its standard input it
\* stops dispatching and terminates: it writes no response for the end of
\* input and is no longer running.
C7_HelperEndsAtEof ==
    hlog.eof => (helper = "dead" /\ hlog.written = <<>>)

\* C8: a helper-assisted delete that does not obtain SUCCESS (also one
\* attempted after the helper has died) never aborts the remediation loop:
\* the main process is not ended by an error of the pipe to the helper.
C8_FailedDeleteNeverAborts ==
    ~(pc = "crashed" /\ err = "BrokenPipeError")

\* repr() of a text that holds no double quote and no backslash
C9_PyRepr(s) == IF Contains(s, "'") THEN <<"\"">> \o s \o <<"\"">>
                ELSE <<"'">> \o s \o <<"'">>

\* C9 (as amended): each response is one line ended by a single newline:
\* "Must be in the form '[CMD] ...\n'" (a backslash and an n before the
\* closing quote) for a line without a space, "ERR Must be a .desktop
\* file." for a non-.desktop UNLINK argument, "UNLINK <entry> SUCCESS"
\* after a successful deletion of <entry>, and "ERR Unknown:
\* command=<repr(command)> entry=<repr(entry)>" for any other verb, with
\* command and entry in Python's quoted repr() form.
C9_ResponsesAsCoded ==
    (hlog.kind # "none" /\ hlog.written # <<>>) =>
        LET l == hlog.line IN
        /\ hlog.written =
             (IF ~Contains(l, " ")
              THEN <<"Must be in the form '[CMD] ...", "\\n", "'">>
              ELSE IF Before(l) = <<"UNLINK">>
              THEN IF EndsWithDesktop(After(l))
                   THEN <<"UNLINK", " ">> \o After(l) \o <<" ", "SUCCESS">>
                   ELSE <<"ERR Must be a .desktop file.">>
              ELSE <<"ERR Unknown: command=">> \o C9_PyRepr(Before(l))
                   \o <<" entry=">> \o C9_PyRepr(After(l)))
             \o <<"\n">>
        /\ EndsWithSuccess(Strip(hlog.written)) <=> hlog.deleted = {After(l)}

C9_Witness ==
    /\ hlog.kind = "unknown"
    /\ hlog.written # <<>>
    /\ Contains(After(hlog.line), "'")

\* C9 (as claimed): the usage line is "Must be in the form '[CMD] ...'"
\* and the unknown-verb line is "ERR Unknown: command=<command>
\* entry=<entry>" with the raw command and entry text.
C9_ResponsesAsSpecified ==
    (hlog.kind # "none" /\ hlog.written # <<>>) =>
        LET l == hlog.line IN
        hlog.written =
             (IF ~Contains(l, " ")
              THEN <<"Must be in the form '[CMD] ...", "'">>
              ELSE IF Before(l) = <<"UNLINK">>
              THEN IF EndsWithDesktop(After(l))
                   THEN <<"UNLINK", " ">> \o After(l) \o <<" ", "SUCCESS">>
                   ELSE <<"ERR Must be a .desktop file.">>
              ELSE <<"ERR Unknown: command=">> \o Before(l)
                   \o <<" entry=">> \o After(l))
             \o <<"\n">>

\* C10: every scanned file that parses and has no [Desktop Entry] section
\* or no Exec key in it is in the result with exactly the reason "No
\* [Desktop Entry].Exec entry found.", whatever was scanned before it.
C10_MissingExecReported ==
    \A i \in 1..Len(scanned) :
        LET f == scanned[i] IN
        (content[f].parse = "ok" /\ content[f].exec = NoKey) =>
            \E j \in 1..Len(broken) :
                /\ broken[j].location = f
                /\ broken[j].reason = "No [Desktop Entry].Exec entry found."

\* C11: the scan never aborts on a bad file: whatever a file holds
\* (unparsable text, no section or key, an empty Exec value, an Exec with
\* an unclosed quote, env followed only by KEY=VALUE words) the scanner
\* reports it or leaves it out and goes on; no exception leaves the
\* function.
C11_ScanNeverAborts == scanpc # "crashed"

\* the Exec values whose executable is on the search path or is an
\* existing absolute path
C12_HealthyExec ==
    {<<"sh">>, <<"/bin/sh">>, <<"env", " ", "A=1", " ", "sh">>}

\* C12: every readable file with a valid [Desktop Entry].Exec whose
\* executable is found on the search path, or exists as the path given,
\* is absent from the result, whatever the files scanned before it held;
\* and every entry in the result has its reason set.
C12_HealthyFilesExcluded ==
    /\ \A i \in 1..Len(scanned) :
          LET f == scanned[i] IN
          (/\ content[f].parse = "ok"
           /\ content[f].section
           /\ content[f].exec \in C12_HealthyExec)
          => \A j \in 1..Len(broken) : broken[j].location # f
    /\ \A j \in 1..Len(broken) : broken[j].reason # "None"

C12_Witness ==
    /\ scanpc = "returned"
    /\ Len(scanned) >= 2
    /\ content[scanned[1]].exec = <<"gone">>
    /\ content[scanned[2]].exec = <<"env", " ", "A=1", " ", "sh">>
    /\ Len(broken) = 1
    /\ broken[1].location = scanned[1]

\* C13: when the user answers quit at the prompt for entry k, iteration
\* stops at once: from the quit on, entry k and the entries after it are
\* not deleted, nothing more is sent, counted or prompted, and the totals
\* are printed for the entries the scan returned.
C13_QuitStopsIteration ==
    [][(pc' = "done" /\ entries' # <<>> /\ idx' <= Len(entries'))
       => /\ \A j \in idx'..Len(entries) :
                entries[j] \in fs => entries[j] \in fs'
          /\ idx' = idx
          /\ entries' = entries
          /\ delete_count' = delete_count
          /\ edit_count' = edit_count
          /\ sent' = sent]_vars

\* C14: after edit_file has ended, by whatever exit path (the editor exits
\* zero or non-zero, crashes, or cannot be launched), sys.stdout and
\* sys.stdin are the original streams again.
C14_StdioRestored == stdio = "orig"

\* C15: an entry is counted as edited only when the editor exited with
\* status zero, and a failure to launch the editor is just an entry that
\* is not counted: it never ends the remediation loop.
C15_LaunchFailureNotFatal ==
    /\ edit_count <= idx
    /\ ~(pc = "crashed" /\ err = "OSError")

\* C16: when the helper's unlink of a well-formed UNLINK <path>.desktop
\* fails, the helper writes nothing for that command and ends, and the
\* client call that sent that command observes failure: it has not read a
\* SUCCESS and has not counted the entry.
C16_HelperFailureObserved ==
    (hlog.kind = "unlink" /\ ~hlog.alive /\ hlog.deleted = {})
    => /\ helper = "dead"
       /\ hlog.written = <<>>
       /\ (pc # "wait" /\ rd.for # NoPath /\ hlog.line = Command(rd.for))
          => (~EndsWithSuccess(rd.got) /\ rd.for \notin counted)

\* the words of each Exec value, as a shell splits them
C17_Tokens(x) ==
    CASE x = <<"sh">> -> << <<"sh">> >>
      [] x = <<"gone">> -> << <<"gone">> >>
      [] x = <<"/bin/sh">> -> << <<"/bin/sh">> >>
      [] x = <<"/opt/gone">> -> << <<"/opt/gone">> >>
      [] x = <<"~/bin/tool">> -> << <<"~/bin/tool">> >>
      [] x = <<"env", " ", "A=1", " ", "sh">>
            -> << <<"env">>, <<"A=1">>, <<"sh">> >>
      [] x = <<"env", " ", "A=1", " ", "gone">>
            -> << <<"env">>, <<"A=1">>, <<"gone">> >>
      [] x = <<"ENV", " ", "A=1", " ", "/opt/gone">>
            -> << <<"ENV">>, <<"A=1">>, <<"/opt/gone">> >>
      [] x = <<"\"", "my", " ", "app", "\"", " ", "arg">>
            -> << <<"my", " ", "app">>, <<"arg">> >>
      [] OTHER -> <<>>

\* C17: if the first token of the Exec string is env in any letter case,
\* the resolved executable is the first later token without "="; otherwise
\* it is the first token itself.
C17_ResolvedExecutable ==
    (lastScan.result \in {"broken", "healthy"}
        /\ lastScan.entry.full_exec # <<"none">>)
    => LET t == C17_Tokens(lastScan.entry.full_exec)
           later == {j \in 2..Len(t) : t[j] # <<"A=1">>}
           first == CHOOSE j \in later : \A k \in later : j <= k
       IN /\ t # <<>>
          /\ lastScan.entry.exec =
                IF t[1] \in {<<"env">>, <<"ENV">>} THEN t[first] ELSE t[1]

C17_Witness ==
    /\ lastScan.entry.full_exec = <<"ENV", " ", "A=1", " ", "/opt/gone">>
    /\ lastScan.entry.exec = <<"/opt/gone">>
    /\ lastScan.result = "broken"

\* the paths that exist once ~ is expanded to the home directory
C18_ExpandedExists(tok) == tok \in {<<"/bin/sh">>, <<"~/bin/tool">>}

\* C18: an entry whose resolved executable starts with / or ~ is reported
\* with "Executable does not exist." exactly when the path, with ~
\* expanded to the home directory, does not exist; it is never looked up
\* on the search path.
C18_PathChecked ==
    (/\ lastScan.result \in {"broken", "healthy"}
     /\ lastScan.entry.exec # <<"none">>
     /\ lastScan.entry.exec[1] \in {"/bin/sh", "/opt/gone", "~/bin/tool"})
    => /\ (lastScan.result = "broken"
             /\ lastScan.entry.reason = "Executable does not exist.")
          <=> ~C18_ExpandedExists(lastScan.entry.exec)
       /\ lastScan.entry.reason # "Executable not found in $PATH."

\* the entries prompted so far
C19_Prompted ==
    {entries[j] : j \in 1..(IF idx <= Len(entries) THEN idx ELSE Len(entries))}

\* C19: the only files the helper deletes are files at exactly the
\* location of an entry the user was prompted for and answered delete; no
\* file name makes it delete another path.
C19_HelperDeletesOnlyEntries == hlog.deleted \subseteq C19_Prompted

\* the number of entries prompted so far
C20_PromptedCount == IF idx <= Len(entries) THEN idx ELSE Len(entries)

\* C20: at every point of the loop delete_count + edit_count is at most
\* the number of entries prompted so far (the entry at the prompt has not
\* contributed yet), which is at most the number of entries found.
C20_CountsBounded ==
    /\ delete_count + edit_count <= C20_PromptedCount
    /\ pc = "prompt" => delete_count + edit_count <= idx - 1
    /\ C20_PromptedCount <= Len(entries)
    /\ Cardinality(counted) = delete_count

C20_Witness ==
    /\ pc = "done"
    /\ idx = Len(entries) + 1
    /\ delete_count >= 1
    /\ edit_count >= 1
    /\ delete_count + edit_count = Len(entries)

=============================================================================
